---- MODULE Spec2Model ----
(***************************************************************************)
(* Model of the pigeon websocket manager: the hub coordination loop        *)
(* (hub.run), the per-session outbound queue and pumps (session.go) and    *)
(* the Pigeon facade (pigeon.go).  Every goroutine is a process with a     *)
(* program counter; an unbuffered-channel hand-off is one joint step of    *)
(* the sender and the hub loop, and everything the hub does after taking   *)
(* a value is a later step of the hub alone.                               *)
(***************************************************************************)
EXTENDS Integers, Sequences, FiniteSets, TLC

\* ---- bounds ----
MaxSessions == 2          \* connections accepted over the run
MaxOps == 2               \* API calls issued by the caller goroutine
TightBuffer == 1          \* Config.MessageBufferSize handed to New in Spec, SpecMultiple
WideBuffer == 2           \* Config.MessageBufferSize handed to New in SpecWide
MaxPings == 1             \* keepalive ticks of the ping ticker over the run

Sessions == 1..MaxSessions
Callers == {"c1"}
Payloads == {"a"}
EmptyPayload == ""
FrameKinds == {"Text", "Binary"}
NoSession == 0

\* ---- error values (errors.New texts of the source) ----
ErrNone == "nil"
ErrInstanceClosed == "pigeon instance is closed"
ErrInstanceAlreadyClosed == "pigeon instance is already closed"
ErrSessionClosed == "session is closed"
ErrSessionAlreadyClosed == "session is already closed"
ErrWriteClosed == "tried to write to closed a session"
ErrBufferFull == "session message buffer is full"
ErrWriteRawClosed == "tried to write to a closed session"
ErrTransport == "transport write failed"
ErrUpgrade == "upgrade failed"

VARIABLES
    MessageBufferSize, \* Config.MessageBufferSize: capacity of every Session.output
    sessions,     \* hub.sessions: the live set
    hubOpen,      \* hub.open
    hubPc,        \* position of the hub.run goroutine
    hubS,         \* session taken from hub.register / hub.unregister, or visited by a range
    hubM,         \* envelope taken from hub.broadcast / hub.exit
    todo,         \* sessions the current range over hub.sessions has not visited yet
    fan,          \* history of the current fan-out / sweep
    open,         \* Session.open
    connClosed,   \* Session.conn has been closed
    output,       \* Session.output: buffered channel contents
    outClosed,    \* Session.output has been closed
    nacc,         \* per session: number of envelopes accepted into output so far
    hpc,          \* position of the HandleRequestWithKeys goroutine of each session
    ppc,          \* position of the writePump goroutine of each session
    pmsg,         \* envelope the writePump took from output
    wrote,        \* frames written to the transport by writePump, in order
    cbs,          \* per session: callbacks invoked by its own goroutines
    cl,           \* caller goroutines: the API call in progress and its outcome
    ops,          \* API calls issued so far
    closeReturned,\* a Pigeon.Close / CloseWithMsg call has returned nil
    panicked      \* a goroutine panicked (send on a closed channel, close of a closed
                  \* channel): the process is gone

hubVars == <<MessageBufferSize, sessions, hubOpen, hubPc, hubS, hubM, todo, fan>>
sessVars == <<open, connClosed, output, outClosed, nacc>>
procVars == <<hpc, ppc, pmsg, wrote, cbs>>
callVars == <<cl, ops, closeReturned>>
vars == <<MessageBufferSize, sessions, hubOpen, hubPc, hubS, hubM, todo, fan, open, connClosed, output,
          outClosed, nacc, hpc, ppc, pmsg, wrote, cbs, cl, ops, closeReturned, panicked>>

\* ---- envelope ----
NoFilter == {}
envelope(t, message, hasFilter, filter) ==
    [t |-> t, message |-> message, hasFilter |-> hasFilter, filter |-> filter]
NoEnvelope == envelope("None", EmptyPayload, FALSE, NoFilter)
NoFrame == [t |-> "None", message |-> EmptyPayload, stamp |-> 0]

\* filterFunc: a predicate on sessions, given by the set of sessions it accepts
filterAccepts(m, s) == s \in m.filter

\* ---- Session.closed / hub.closed ----
closed(s) == ~open[s]
hubClosed == ~hubOpen

\* h.mu is write-locked by the hub loop for the whole exit sweep
hubWriteLocked == hubPc \in {"exit_range", "exit_wm", "exit_send"}

\* ---- history records ----
NoFan == [kind |-> "none", snap |-> {}, cnt |-> [s \in Sessions |-> 0],
          res |-> [s \in Sessions |-> "none"], evals |-> [s \in Sessions |-> 0],
          errs |-> [s \in Sessions |-> <<>>]]
NoCbs == [connect |-> 0, disconnect |-> 0, err |-> <<>>, sent |-> <<>>]

NoCall == [op |-> "none", pc |-> "idle", s |-> NoSession, list |-> <<>>,
           m |-> NoEnvelope, ret |-> ErrNone, errs |-> <<>>, enq |-> 0, offered |-> <<>>,
           afterClose |-> FALSE, closedAtCall |-> FALSE, hubClosedAtCall |-> FALSE,
           fullAtSend |-> FALSE]

\* hub.len: the number of sessions in the live set (Pigeon.Len)
hubLen == Cardinality(sessions)

\* hub.filterSession(fn): a session of the live set fn accepts, nil if there is none
filterSession(accepts) ==
    IF \E s \in sessions : s \in accepts
    THEN CHOOSE s \in sessions : s \in accepts
    ELSE NoSession

\* what HandleRequestWithKeys has returned for connection s
handleRequestResult(s) ==
    IF hpc[s] = "h_ret_closed" THEN ErrInstanceClosed
    ELSE IF hpc[s] = "h_ret_err" THEN ErrUpgrade
    ELSE IF hpc[s] = "h_done" THEN ErrNone
    ELSE "running"

\* the session pointer has been handed to user code (connect callback onwards)
known(s) == hpc[s] \notin {"idle", "h_register", "h_ret_closed", "h_ret_err"}

\* New(conf): the hub of newHub with its loop started, no session yet
New(conf) ==
    /\ MessageBufferSize = conf
    /\ sessions = {}
    /\ hubOpen = TRUE
    /\ hubPc = "select"
    /\ hubS = NoSession
    /\ hubM = NoEnvelope
    /\ todo = {}
    /\ fan = NoFan
    /\ open = [s \in Sessions |-> FALSE]
    /\ connClosed = [s \in Sessions |-> FALSE]
    /\ output = [s \in Sessions |-> <<>>]
    /\ outClosed = [s \in Sessions |-> FALSE]
    /\ nacc = [s \in Sessions |-> 0]
    /\ hpc = [s \in Sessions |-> "idle"]
    /\ ppc = [s \in Sessions |-> "p_none"]
    /\ pmsg = [s \in Sessions |-> NoFrame]
    /\ wrote = [s \in Sessions |-> <<>>]
    /\ cbs = [s \in Sessions |-> NoCbs]
    /\ cl = [c \in Callers |-> NoCall]
    /\ ops = 0
    /\ closeReturned = FALSE
    /\ panicked = FALSE

Init == New(TightBuffer)
InitWide == New(WideBuffer)

\* sendOutcome with a queue that takes one envelope more than its capacity
sendOutcomeOffByOne(s) ==
    IF outClosed[s] THEN "panic"
    ELSE IF Len(output[s]) <= MessageBufferSize THEN "ok"
    ELSE "full"

\* ---- the non-blocking send of writeMessage: select { case s.output <- m: default: } ----
sendOutcome(s) ==
    IF outClosed[s] THEN "panic"
    ELSE IF Len(output[s]) < MessageBufferSize THEN "ok"
    ELSE "full"

frameOf(m, s) == [t |-> m.t, message |-> m.message, stamp |-> nacc[s] + 1]

\* effect of the select of writeMessage on the session's queue
selectSend(s, m) ==
    /\ output' = [output EXCEPT ![s] =
                    IF sendOutcome(s) = "ok" THEN Append(@, frameOf(m, s)) ELSE @]
    /\ nacc' = [nacc EXCEPT ![s] = IF sendOutcome(s) = "ok" THEN @ + 1 ELSE @]
    /\ panicked' = (sendOutcome(s) = "panic")
    /\ UNCHANGED <<open, connClosed, outClosed>>

\* ======================= HandleRequestWithKeys =======================

\* Accept with the p.hub.closed() test left out
AcceptUnguarded(s) ==
    /\ hpc[s] = "idle"
    /\ \A r \in Sessions : r < s => hpc[r] # "idle"
    /\ ~hubWriteLocked
    /\ \E upgraded \in BOOLEAN :
         /\ hpc' = [hpc EXCEPT ![s] = IF upgraded THEN "h_register" ELSE "h_ret_err"]
         /\ open' = [open EXCEPT ![s] = upgraded]
    /\ UNCHANGED <<hubVars, connClosed, output, outClosed, nacc, ppc, pmsg, wrote, cbs,
                   callVars, panicked>>

\* if p.hub.closed() { return error }; Upgrade; session := &Session{...}
Accept(s) ==
    /\ hpc[s] = "idle"
    /\ \A r \in Sessions : r < s => hpc[r] # "idle"
    /\ ~hubWriteLocked
    /\ IF hubClosed
       THEN /\ hpc' = [hpc EXCEPT ![s] = "h_ret_closed"]
            /\ UNCHANGED open
       ELSE \E upgraded \in BOOLEAN :
            /\ hpc' = [hpc EXCEPT ![s] = IF upgraded THEN "h_register" ELSE "h_ret_err"]
            /\ open' = [open EXCEPT ![s] = upgraded]
    /\ UNCHANGED <<hubVars, connClosed, output, outClosed, nacc, ppc, pmsg, wrote, cbs,
                   callVars, panicked>>

\* p.hub.register <- session, taken by case s := <-h.register
HubTakeRegister(s) ==
    /\ hpc[s] = "h_register"
    /\ hubPc = "select"
    /\ hubPc' = "reg"
    /\ hubS' = s
    /\ hpc' = [hpc EXCEPT ![s] = "h_connect"]
    /\ UNCHANGED <<MessageBufferSize, sessions, hubOpen, hubM, todo, fan, sessVars, ppc, pmsg, wrote, cbs,
                   callVars, panicked>>

\* h.mu.Lock(); h.sessions[s] = true; h.mu.Unlock()
registerSession(live, s) == live \cup {s}

HubApplyRegister ==
    /\ hubPc = "reg"
    /\ sessions' = registerSession(sessions, hubS)
    /\ hubPc' = "select"
    /\ hubS' = NoSession
    /\ UNCHANGED <<MessageBufferSize, hubOpen, hubM, todo, fan, sessVars, procVars, callVars, panicked>>

\* p.connectHandler(session)
Connect(s) ==
    /\ hpc[s] = "h_connect"
    /\ hpc' = [hpc EXCEPT ![s] = "h_spawn"]
    /\ cbs' = [cbs EXCEPT ![s].connect = @ + 1]
    /\ UNCHANGED <<hubVars, sessVars, ppc, pmsg, wrote, callVars, panicked>>

\* go session.writePump(); then session.readPump() starts on this goroutine
SpawnPump(s) ==
    /\ hpc[s] = "h_spawn"
    /\ hpc' = [hpc EXCEPT ![s] = "h_read"]
    /\ ppc' = [ppc EXCEPT ![s] = "p_wait"]
    /\ UNCHANGED <<hubVars, sessVars, pmsg, wrote, cbs, callVars, panicked>>

\* ReadExit with the teardown going straight to the disconnect callback
ReadExitSkipsClose(s) ==
    /\ hpc[s] = "h_read"
    /\ ~hubWriteLocked
    /\ hpc' = [hpc EXCEPT ![s] = IF hubClosed THEN "h_disconnect" ELSE "h_unregister"]
    /\ UNCHANGED <<hubVars, sessVars, ppc, pmsg, wrote, cbs, callVars, panicked>>

\* readPump returns (ReadMessage failed: the peer went away, the read deadline
\* passed or the connection was closed; the callbacks it may run are user code
\* without effect on the manager); then if !p.hub.closed() { ... }
ReadExit(s) ==
    /\ hpc[s] = "h_read"
    /\ ~hubWriteLocked
    /\ hpc' = [hpc EXCEPT ![s] = IF hubClosed THEN "h_close" ELSE "h_unregister"]
    /\ UNCHANGED <<hubVars, sessVars, ppc, pmsg, wrote, cbs, callVars, panicked>>

\* p.hub.unregister <- session, taken by case s := <-h.unregister
HubTakeUnregister(s) ==
    /\ hpc[s] = "h_unregister"
    /\ hubPc = "select"
    /\ hubPc' = "unreg"
    /\ hubS' = s
    /\ hpc' = [hpc EXCEPT ![s] = "h_close"]
    /\ UNCHANGED <<MessageBufferSize, sessions, hubOpen, hubM, todo, fan, sessVars, ppc, pmsg, wrote, cbs,
                   callVars, panicked>>

\* unregisterSession leaving the session in the live set
unregisterSessionKeeps(live, s) == live

\* unregisterSession dropping the whole live set along with s
unregisterSessionAll(live, s) == IF s \in live THEN {} ELSE live

\* if _, ok := h.sessions[s]; ok { h.mu.Lock(); delete(h.sessions, s); h.mu.Unlock() }
unregisterSession(live, s) == IF s \in live THEN live \ {s} ELSE live

HubApplyUnregister ==
    /\ hubPc = "unreg"
    /\ sessions' = unregisterSession(sessions, hubS)
    /\ hubPc' = "select"
    /\ hubS' = NoSession
    /\ UNCHANGED <<MessageBufferSize, hubOpen, hubM, todo, fan, sessVars, procVars, callVars, panicked>>

\* closeResult with the s.closed() test left out
closeResultUnguarded(o, cc, oc) ==
    [open |-> FALSE, conn |-> TRUE, out |-> TRUE, panic |-> oc]

\* what one run of Session.close makes of a session whose open flag is o, whose
\* connection is closed iff cc and whose queue is closed iff oc; closing a
\* closed channel panics
closeResult(o, cc, oc) ==
    IF o
    THEN [open |-> FALSE, conn |-> TRUE, out |-> TRUE, panic |-> oc]
    ELSE [open |-> o, conn |-> cc, out |-> oc, panic |-> FALSE]

\* Session.close: if !s.closed() { s.mu.Lock(); s.open = false; s.conn.Close();
\* close(s.output); s.mu.Unlock() }.  Only this goroutine ever calls close, so
\* nothing changes s.open between the test and the locked section.
SessionClose(s) ==
    /\ hpc[s] = "h_close"
    /\ LET r == closeResult(open[s], connClosed[s], outClosed[s]) IN
         /\ open' = [open EXCEPT ![s] = r.open]
         /\ connClosed' = [connClosed EXCEPT ![s] = r.conn]
         /\ outClosed' = [outClosed EXCEPT ![s] = r.out]
         /\ panicked' = r.panic
    /\ hpc' = [hpc EXCEPT ![s] = "h_disconnect"]
    /\ UNCHANGED <<hubVars, output, nacc, ppc, pmsg, wrote, cbs, callVars>>

\* p.disconnectHandler(session); return nil
Disconnect(s) ==
    /\ hpc[s] = "h_disconnect"
    /\ hpc' = [hpc EXCEPT ![s] = "h_done"]
    /\ cbs' = [cbs EXCEPT ![s].disconnect = @ + 1]
    /\ UNCHANGED <<hubVars, sessVars, ppc, pmsg, wrote, callVars, panicked>>

\* ======================= Session.writePump =======================

\* PumpRecv taking the newest envelope of the queue instead of the oldest
PumpRecvNewest(s) ==
    /\ ppc[s] = "p_wait"
    /\ IF output[s] # <<>>
       THEN /\ pmsg' = [pmsg EXCEPT ![s] = output[s][Len(output[s])]]
            /\ output' = [output EXCEPT ![s] = SubSeq(@, 1, Len(@) - 1)]
            /\ ppc' = [ppc EXCEPT ![s] = "p_raw"]
       ELSE /\ outClosed[s]
            /\ ppc' = [ppc EXCEPT ![s] = "p_done"]
            /\ UNCHANGED <<pmsg, output>>
    /\ UNCHANGED <<hubVars, open, connClosed, outClosed, nacc, hpc, wrote, cbs, callVars,
                   panicked>>

\* case msg, ok := <-s.output: a closed channel still yields what is buffered
PumpRecv(s) ==
    /\ ppc[s] = "p_wait"
    /\ IF output[s] # <<>>
       THEN /\ pmsg' = [pmsg EXCEPT ![s] = Head(output[s])]
            /\ output' = [output EXCEPT ![s] = Tail(@)]
            /\ ppc' = [ppc EXCEPT ![s] = "p_raw"]
       ELSE /\ outClosed[s]
            /\ ppc' = [ppc EXCEPT ![s] = "p_done"]
            /\ UNCHANGED <<pmsg, output>>
    /\ UNCHANGED <<hubVars, open, connClosed, outClosed, nacc, hpc, wrote, cbs, callVars,
                   panicked>>

\* sentHandler with every frame that is not Binary handed to the text callback
sentHandlerAnyFrame(t) ==
    IF t = "Binary" THEN "messageSentHandlerBinary" ELSE "messageSentHandler"

\* the callback writePump invokes after it has written a frame of kind t
sentHandler(t) ==
    IF t = "Text" THEN "messageSentHandler"
    ELSE IF t = "Binary" THEN "messageSentHandlerBinary"
    ELSE "none"

\* the record of one message-sent callback
sentCall(f) == [handler |-> sentHandler(f.t), message |-> f.message, stamp |-> f.stamp]

\* PumpWrite with a pump that goes back to its select after a Close frame
PumpWriteGoesOn(s) ==
    /\ ppc[s] = "p_raw"
    /\ pmsg' = [pmsg EXCEPT ![s] = NoFrame]
    /\ IF closed(s)
       THEN /\ cbs' = [cbs EXCEPT ![s].err = Append(@, ErrWriteRawClosed)]
            /\ ppc' = [ppc EXCEPT ![s] = "p_done"]
            /\ UNCHANGED wrote
       ELSE \E ok \in BOOLEAN :
            IF ok
            THEN /\ wrote' = [wrote EXCEPT ![s] = Append(@, pmsg[s])]
                 /\ ppc' = [ppc EXCEPT ![s] = "p_wait"]
                 /\ cbs' = [cbs EXCEPT ![s].sent =
                              IF sentHandler(pmsg[s].t) # "none"
                              THEN Append(@, sentCall(pmsg[s])) ELSE @]
            ELSE /\ cbs' = [cbs EXCEPT ![s].err = Append(@, ErrTransport)]
                 /\ ppc' = [ppc EXCEPT ![s] = "p_done"]
                 /\ UNCHANGED wrote
    /\ UNCHANGED <<hubVars, sessVars, hpc, callVars, panicked>>

\* writeRaw(msg) and what the loop does with its result.  conn.WriteMessage on
\* an open connection succeeds or fails (peer gone, deadline).
PumpWrite(s) ==
    /\ ppc[s] = "p_raw"
    /\ pmsg' = [pmsg EXCEPT ![s] = NoFrame]
    /\ IF closed(s)
       THEN /\ cbs' = [cbs EXCEPT ![s].err = Append(@, ErrWriteRawClosed)]
            /\ ppc' = [ppc EXCEPT ![s] = "p_done"]
            /\ UNCHANGED wrote
       ELSE \E ok \in BOOLEAN :
            IF ok
            THEN /\ wrote' = [wrote EXCEPT ![s] = Append(@, pmsg[s])]
                 /\ ppc' = [ppc EXCEPT ![s] = IF pmsg[s].t = "Close" THEN "p_done" ELSE "p_wait"]
                 /\ cbs' = [cbs EXCEPT ![s].sent =
                              IF sentHandler(pmsg[s].t) # "none"
                              THEN Append(@, sentCall(pmsg[s])) ELSE @]
            ELSE /\ cbs' = [cbs EXCEPT ![s].err = Append(@, ErrTransport)]
                 /\ ppc' = [ppc EXCEPT ![s] = "p_done"]
                 /\ UNCHANGED wrote
    /\ UNCHANGED <<hubVars, sessVars, hpc, callVars, panicked>>

\* the keepalive frame of Session.ping
pingFrame == [t |-> "Ping", message |-> EmptyPayload, stamp |-> 0]

\* keepalive frames written to the transport of s so far
pingsWritten(s) == Len(SelectSeq(wrote[s], LAMBDA f : f.t = "Ping"))

\* case <-ticker.C: s.ping(): writeRaw of a Ping frame whose result is dropped,
\* so a closed session or a failed write leaves everything as it was
PumpPing(s) ==
    /\ ppc[s] = "p_wait"
    /\ pingsWritten(s) < MaxPings
    /\ IF closed(s)
       THEN UNCHANGED wrote
       ELSE \E ok \in BOOLEAN :
            wrote' = [wrote EXCEPT ![s] = IF ok THEN Append(@, pingFrame) ELSE @]
    /\ UNCHANGED <<hubVars, sessVars, hpc, ppc, pmsg, cbs, callVars, panicked>>

\* ======================= hub.run: broadcast and exit =======================

\* for s := range h.sessions: the sessions a range started now will visit
rangeSessions(live) == live

\* the outcome of one writeMessage as the history records it
noteSend(f, s, outcome) ==
    [f EXCEPT !.res[s] = outcome,
              !.cnt[s] = IF outcome = "ok" THEN @ + 1 ELSE @,
              !.errs[s] = IF outcome = "full" THEN Append(@, ErrBufferFull)
                          ELSE IF outcome = "closed" THEN Append(@, ErrWriteClosed)
                          ELSE @]

\* p.hub.broadcast <- message, taken by case m := <-h.broadcast; the sender returns nil
HubTakeBroadcast(c) ==
    /\ cl[c].pc = "b_send"
    /\ hubPc = "select"
    /\ hubPc' = "bcast_range"
    /\ hubM' = cl[c].m
    /\ todo' = rangeSessions(sessions)
    /\ fan' = [NoFan EXCEPT !.kind = "bcast", !.snap = sessions]
    /\ cl' = [cl EXCEPT ![c].pc = "ret", ![c].ret = ErrNone, ![c].m = NoEnvelope]
    /\ UNCHANGED <<MessageBufferSize, sessions, hubOpen, hubS, sessVars, procVars, ops, closeReturned, panicked>>

\* passesFilter with the filter's verdict ignored
passesFilterIgnored(m, s) == TRUE

\* m.filter == nil || m.filter(s)
passesFilter(m, s) == ~m.hasFilter \/ filterAccepts(m, s)

\* one iteration of the range up to the s.closed() test of writeMessage
HubFanVisit ==
    /\ hubPc = "bcast_range"
    /\ \E s \in todo :
         /\ todo' = todo \ {s}
         /\ LET f1 == [fan EXCEPT !.evals[s] = IF hubM.hasFilter THEN @ + 1 ELSE @] IN
            IF ~passesFilter(hubM, s)
            THEN /\ fan' = [f1 EXCEPT !.res[s] = "filtered"]
                 /\ UNCHANGED <<hubPc, hubS>>
            ELSE IF closed(s)
            THEN /\ fan' = noteSend(f1, s, "closed")
                 /\ UNCHANGED <<hubPc, hubS>>
            ELSE /\ fan' = f1
                 /\ hubPc' = "bcast_send"
                 /\ hubS' = s
    /\ UNCHANGED <<MessageBufferSize, sessions, hubOpen, hubM, sessVars, procVars, callVars, panicked>>

\* HubFanSend with a fan-out that stops at the first session whose queue is full
HubFanSendAbortOnFull ==
    /\ hubPc = "bcast_send"
    /\ selectSend(hubS, hubM)
    /\ fan' = noteSend(fan, hubS, sendOutcome(hubS))
    /\ hubPc' = IF sendOutcome(hubS) = "panic" THEN "panic" ELSE "bcast_range"
    /\ hubS' = NoSession
    /\ todo' = IF sendOutcome(hubS) = "full" THEN {} ELSE todo
    /\ UNCHANGED <<MessageBufferSize, sessions, hubOpen, hubM, procVars, callVars>>

\* the select of writeMessage for the session being visited
HubFanSend ==
    /\ hubPc = "bcast_send"
    /\ selectSend(hubS, hubM)
    /\ fan' = noteSend(fan, hubS, sendOutcome(hubS))
    /\ hubPc' = IF sendOutcome(hubS) = "panic" THEN "panic" ELSE "bcast_range"
    /\ hubS' = NoSession
    /\ UNCHANGED <<MessageBufferSize, sessions, hubOpen, hubM, todo, procVars, callVars>>

\* the range is over: h.mu.RUnlock() and back to the select
HubFanDone ==
    /\ hubPc = "bcast_range"
    /\ todo = {}
    /\ hubPc' = "select"
    /\ hubM' = NoEnvelope
    /\ fan' = NoFan
    /\ UNCHANGED <<MessageBufferSize, sessions, hubOpen, hubS, todo, sessVars, procVars, callVars, panicked>>

\* p.hub.exit <- envelope, taken by case m := <-h.exit; the sender returns nil
HubTakeExit(c) ==
    /\ cl[c].pc = "x_send"
    /\ hubPc = "select"
    /\ hubPc' = "exit"
    /\ hubM' = cl[c].m
    /\ cl' = [cl EXCEPT ![c].pc = "ret", ![c].ret = ErrNone, ![c].m = NoEnvelope]
    /\ closeReturned' = TRUE
    /\ UNCHANGED <<MessageBufferSize, sessions, hubOpen, hubS, todo, fan, sessVars, procVars, ops, panicked>>

\* h.mu.Lock(); for s := range h.sessions
HubExitLock ==
    /\ hubPc = "exit"
    /\ hubPc' = "exit_range"
    /\ todo' = rangeSessions(sessions)
    /\ fan' = [NoFan EXCEPT !.kind = "exit", !.snap = sessions]
    /\ UNCHANGED <<MessageBufferSize, sessions, hubOpen, hubS, hubM, sessVars, procVars, callVars, panicked>>

\* the Close envelope CloseWithMsg(m.message) builds
closeEnvelope(message) == envelope("Close", message, FALSE, NoFilter)

\* s.CloseWithMsg(m.message) up to its s.closed() test; delete(h.sessions, s) if it returns
HubExitVisit ==
    /\ hubPc = "exit_range"
    /\ \E s \in todo :
         /\ todo' = todo \ {s}
         /\ IF closed(s)
            THEN /\ fan' = [fan EXCEPT !.res[s] = "refused"]
                 /\ sessions' = sessions \ {s}
                 /\ UNCHANGED <<hubPc, hubS>>
            ELSE /\ hubPc' = "exit_wm"
                 /\ hubS' = s
                 /\ UNCHANGED <<fan, sessions>>
    /\ UNCHANGED <<MessageBufferSize, hubOpen, hubM, sessVars, procVars, callVars, panicked>>

\* the s.closed() test of writeMessage
HubExitWM ==
    /\ hubPc = "exit_wm"
    /\ IF closed(hubS)
       THEN /\ fan' = noteSend(fan, hubS, "closed")
            /\ sessions' = sessions \ {hubS}
            /\ hubPc' = "exit_range"
            /\ hubS' = NoSession
       ELSE /\ hubPc' = "exit_send"
            /\ UNCHANGED <<fan, sessions, hubS>>
    /\ UNCHANGED <<MessageBufferSize, hubOpen, hubM, todo, sessVars, procVars, callVars, panicked>>

\* HubExitSend with the sweep calling s.Close() instead of s.CloseWithMsg(m.message)
HubExitSendNoPayload ==
    /\ hubPc = "exit_send"
    /\ selectSend(hubS, closeEnvelope(EmptyPayload))
    /\ fan' = noteSend(fan, hubS, sendOutcome(hubS))
    /\ sessions' = IF sendOutcome(hubS) = "panic" THEN sessions ELSE sessions \ {hubS}
    /\ hubPc' = IF sendOutcome(hubS) = "panic" THEN "panic" ELSE "exit_range"
    /\ hubS' = NoSession
    /\ UNCHANGED <<MessageBufferSize, hubOpen, hubM, todo, procVars, callVars>>

\* the select of writeMessage, then delete(h.sessions, s)
HubExitSend ==
    /\ hubPc = "exit_send"
    /\ selectSend(hubS, closeEnvelope(hubM.message))
    /\ fan' = noteSend(fan, hubS, sendOutcome(hubS))
    /\ sessions' = IF sendOutcome(hubS) = "panic" THEN sessions ELSE sessions \ {hubS}
    /\ hubPc' = IF sendOutcome(hubS) = "panic" THEN "panic" ELSE "exit_range"
    /\ hubS' = NoSession
    /\ UNCHANGED <<MessageBufferSize, hubOpen, hubM, todo, procVars, callVars>>

\* h.open = false; h.mu.Unlock(); break loop
HubExitDone ==
    /\ hubPc = "exit_range"
    /\ todo = {}
    /\ hubOpen' = FALSE
    /\ hubPc' = "halted"
    /\ hubM' = NoEnvelope
    /\ fan' = NoFan
    /\ UNCHANGED <<MessageBufferSize, sessions, hubS, todo, sessVars, procVars, callVars, panicked>>

\* ======================= API calls made by user goroutines =======================

canCall(c) == cl[c].pc \in {"idle", "ret"} /\ ops < MaxOps

newCall(op, s, list, m) ==
    [NoCall EXCEPT !.op = op, !.s = s, !.list = list, !.m = m,
                   !.afterClose = closeReturned,
                   !.closedAtCall = IF s = NoSession THEN FALSE ELSE closed(s),
                   !.hubClosedAtCall = hubClosed]

\* sessionGuard with the s.closed() test left out
sessionGuardMissing(s) == FALSE

\* the first statement of Write / WriteBinary / CloseWithMsg: if s.closed() { return err }
sessionGuard(s) == closed(s)

\* Session.Write (t = Text) / Session.WriteBinary (t = Binary) up to the s.closed() test
CallWrite(c, s, t, msg) ==
    /\ canCall(c)
    /\ known(s)
    /\ ops' = ops + 1
    /\ cl' = [cl EXCEPT ![c] =
                IF sessionGuard(s)
                THEN [newCall("Write", s, <<>>, envelope(t, msg, FALSE, NoFilter))
                        EXCEPT !.pc = "ret", !.ret = ErrSessionClosed]
                ELSE [newCall("Write", s, <<>>, envelope(t, msg, FALSE, NoFilter))
                        EXCEPT !.pc = "wm_check", !.offered = <<s>>]]
    /\ UNCHANGED <<hubVars, sessVars, procVars, closeReturned, panicked>>

\* Session.CloseWithMsg(msg) (Session.Close is CloseWithMsg of the empty payload)
\* up to the s.closed() test
CallSessionClose(c, s, msg) ==
    /\ canCall(c)
    /\ known(s)
    /\ ops' = ops + 1
    /\ cl' = [cl EXCEPT ![c] =
                IF sessionGuard(s)
                THEN [newCall("SessionClose", s, <<>>, closeEnvelope(msg))
                        EXCEPT !.pc = "ret", !.ret = ErrSessionAlreadyClosed]
                ELSE [newCall("SessionClose", s, <<>>, closeEnvelope(msg))
                        EXCEPT !.pc = "wm_check", !.offered = <<s>>]]
    /\ UNCHANGED <<hubVars, sessVars, procVars, closeReturned, panicked>>

\* where a call goes when one writeMessage has returned: Write and CloseWithMsg
\* return nil, BroadcastMultiple goes on with the rest of its list
afterWriteMessage(r) ==
    IF r.op = "BroadcastMultiple"
    THEN [r EXCEPT !.pc = "bm_loop", !.list = Tail(@), !.s = NoSession]
    ELSE [r EXCEPT !.pc = "ret", !.ret = ErrNone]

\* writeMessage: if s.closed() { errorHandler(...); return }
CallerWMCheck(c) ==
    /\ cl[c].pc = "wm_check"
    /\ cl' = [cl EXCEPT ![c] =
                IF closed(cl[c].s)
                THEN afterWriteMessage([cl[c] EXCEPT !.errs = Append(@, ErrWriteClosed)])
                ELSE [cl[c] EXCEPT !.pc = "wm_send"]]
    /\ UNCHANGED <<hubVars, sessVars, procVars, ops, closeReturned, panicked>>

\* writeMessage: select { case s.output <- message: default: errorHandler(buffer full) }
CallerWMSend(c) ==
    /\ cl[c].pc = "wm_send"
    /\ selectSend(cl[c].s, cl[c].m)
    /\ cl' = [cl EXCEPT ![c] =
                IF sendOutcome(cl[c].s) = "panic"
                THEN [cl[c] EXCEPT !.pc = "panic"]
                ELSE afterWriteMessage(
                  [cl[c] EXCEPT !.enq = IF sendOutcome(cl[c].s) = "ok" THEN @ + 1 ELSE @,
                                !.fullAtSend = (sendOutcome(cl[c].s) = "full"),
                                !.errs = IF sendOutcome(cl[c].s) = "full"
                                         THEN Append(@, ErrBufferFull) ELSE @])]
    /\ UNCHANGED <<hubVars, procVars, ops, closeReturned>>

\* the test every Broadcast* variant starts with: if p.hub.closed() { return err }
broadcastGuard == hubClosed

\* Broadcast, BroadcastFilter, BroadcastOthers and their Binary variants up to
\* the p.hub.closed() test; BroadcastOthers(msg, s) is the filter q # s
CallBroadcast(c, t, msg, hasFilter, filter) ==
    /\ canCall(c)
    /\ ~hubWriteLocked
    /\ ops' = ops + 1
    /\ cl' = [cl EXCEPT ![c] =
                IF broadcastGuard
                THEN [newCall("Broadcast", NoSession, <<>>, envelope(t, msg, hasFilter, filter))
                        EXCEPT !.pc = "ret", !.ret = ErrInstanceClosed]
                ELSE [newCall("Broadcast", NoSession, <<>>, envelope(t, msg, hasFilter, filter))
                        EXCEPT !.pc = "b_send"]]
    /\ UNCHANGED <<hubVars, sessVars, procVars, closeReturned, panicked>>

\* BroadcastMultiple(msg, sessions): entry of the function
CallBroadcastMultiple(c, msg, list) ==
    /\ canCall(c)
    /\ \A i \in 1..Len(list) : known(list[i])
    /\ ops' = ops + 1
    /\ cl' = [cl EXCEPT ![c] =
                [newCall("BroadcastMultiple", NoSession, list,
                         envelope("Text", msg, FALSE, NoFilter)) EXCEPT !.pc = "bm_loop"]]
    /\ UNCHANGED <<hubVars, sessVars, procVars, closeReturned, panicked>>

\* BroadcastMultipleNext with a loop that skips a closed session and goes on
BroadcastMultipleNextSkipsClosed(c) ==
    /\ cl[c].pc = "bm_loop"
    /\ cl' = [cl EXCEPT ![c] =
                IF cl[c].list = <<>>
                THEN [cl[c] EXCEPT !.pc = "ret", !.ret = ErrNone]
                ELSE IF sessionGuard(Head(cl[c].list))
                THEN [cl[c] EXCEPT !.list = Tail(@),
                                   !.offered = Append(@, Head(cl[c].list))]
                ELSE [cl[c] EXCEPT !.pc = "wm_check", !.s = Head(cl[c].list),
                                   !.offered = Append(@, Head(cl[c].list))]]
    /\ UNCHANGED <<hubVars, sessVars, procVars, ops, closeReturned, panicked>>

\* for _, sess := range sessions { if err := sess.Write(msg); err != nil { return err } }
\* one iteration up to the s.closed() test of Write; return nil after the last
BroadcastMultipleNext(c) ==
    /\ cl[c].pc = "bm_loop"
    /\ cl' = [cl EXCEPT ![c] =
                IF cl[c].list = <<>>
                THEN [cl[c] EXCEPT !.pc = "ret", !.ret = ErrNone]
                ELSE IF sessionGuard(Head(cl[c].list))
                THEN [cl[c] EXCEPT !.pc = "ret", !.ret = ErrSessionClosed,
                                   !.offered = Append(@, Head(cl[c].list))]
                ELSE [cl[c] EXCEPT !.pc = "wm_check", !.s = Head(cl[c].list),
                                   !.offered = Append(@, Head(cl[c].list))]]
    /\ UNCHANGED <<hubVars, sessVars, procVars, ops, closeReturned, panicked>>

\* the test Pigeon.Close / Pigeon.CloseWithMsg start with
closeGuard == hubClosed

\* Pigeon.CloseWithMsg(msg) (Pigeon.Close sends the empty payload) up to the
\* p.hub.closed() test
CallClose(c, msg) ==
    /\ canCall(c)
    /\ ~hubWriteLocked
    /\ ops' = ops + 1
    /\ cl' = [cl EXCEPT ![c] =
                IF closeGuard
                THEN [newCall("Close", NoSession, <<>>, closeEnvelope(msg))
                        EXCEPT !.pc = "ret", !.ret = ErrInstanceAlreadyClosed]
                ELSE [newCall("Close", NoSession, <<>>, closeEnvelope(msg))
                        EXCEPT !.pc = "x_send"]]
    /\ UNCHANGED <<hubVars, sessVars, procVars, closeReturned, panicked>>

\* ======================= specification =======================

\* the lists handed to BroadcastMultiple: up to two distinct sessions
SessionLists ==
    ({<<>>} \cup {<<s>> : s \in Sessions} \cup {<<s, r>> : s \in Sessions, r \in Sessions})
        \ {<<s, s>> : s \in Sessions}

\* the filters handed to BroadcastFilter: q == s (one session), and q # s, the
\* filter BroadcastOthers(msg, s) builds
Filters == {{s} : s \in Sessions} \cup {Sessions \ {s} : s \in Sessions}

\* the goroutines of the manager itself: accept handlers, pumps and the hub
\* loop's register / unregister / exit cases
Lifecycle ==
    \/ \E s \in Sessions : Accept(s)
    \/ \E s \in Sessions : HubTakeRegister(s)
    \/ HubApplyRegister
    \/ \E s \in Sessions : Connect(s)
    \/ \E s \in Sessions : SpawnPump(s)
    \/ \E s \in Sessions : ReadExit(s)
    \/ \E s \in Sessions : HubTakeUnregister(s)
    \/ HubApplyUnregister
    \/ \E s \in Sessions : SessionClose(s)
    \/ \E s \in Sessions : Disconnect(s)
    \/ \E s \in Sessions : PumpRecv(s)
    \/ \E s \in Sessions : PumpWrite(s)
    \/ \E c \in Callers : HubTakeExit(c)
    \/ HubExitLock
    \/ HubExitVisit
    \/ HubExitWM
    \/ HubExitSend
    \/ HubExitDone
    \/ \E c \in Callers : CallerWMCheck(c)
    \/ \E c \in Callers : CallerWMSend(c)
    \/ \E c \in Callers, msg \in Payloads \cup {EmptyPayload} : CallClose(c, msg)

\* user goroutines calling Write / WriteBinary / Close on sessions and the
\* Broadcast* family and Close / CloseWithMsg on the manager
Next ==
    /\ ~panicked
    /\ \/ Lifecycle
       \/ \E c \in Callers : HubTakeBroadcast(c)
       \/ HubFanVisit
       \/ HubFanSend
       \/ HubFanDone
       \/ \E c \in Callers, s \in Sessions, t \in FrameKinds, msg \in Payloads :
            CallWrite(c, s, t, msg)
       \/ \E c \in Callers, s \in Sessions : CallSessionClose(c, s, EmptyPayload)
       \/ \E c \in Callers, t \in FrameKinds, msg \in Payloads :
            \/ CallBroadcast(c, t, msg, FALSE, NoFilter)
            \/ \E f \in Filters : CallBroadcast(c, t, msg, TRUE, f)

Spec == Init /\ [][Next]_vars

\* user goroutines calling BroadcastMultiple and Close / CloseWithMsg on the manager
NextMultiple ==
    /\ ~panicked
    /\ \/ Lifecycle
       \/ \E c \in Callers, msg \in Payloads, list \in SessionLists :
            CallBroadcastMultiple(c, msg, list)
       \/ \E c \in Callers : BroadcastMultipleNext(c)

SpecMultiple == Init /\ [][NextMultiple]_vars

\* the same manager and callers as Spec, with room for two envelopes per queue
SpecWide == InitWide /\ [][Next]_vars

\* user goroutines calling Write / WriteBinary / Close on sessions and Close /
\* CloseWithMsg on the manager, with the keepalive ticker of the pumps running
NextPump ==
    /\ ~panicked
    /\ \/ Lifecycle
       \/ \E s \in Sessions : PumpPing(s)
       \/ \E c \in Callers, s \in Sessions, t \in FrameKinds, msg \in Payloads :
            CallWrite(c, s, t, msg)
       \/ \E c \in Callers, s \in Sessions : CallSessionClose(c, s, EmptyPayload)

SpecPump == Init /\ [][NextPump]_vars

\* ======================= properties =======================

\* the hub loop is inside the fan-out of a broadcast
inFanout == hubPc \in {"bcast_range", "bcast_send"}
\* the range of the current fan-out / sweep has dealt with session s
visited(s) == s \in fan.snap /\ s \notin todo /\ s # hubS
\* the hub loop performs the select of writeMessage in this step
fanSendStep == hubPc = "bcast_send" /\ hubPc' # "bcast_send"
\* what the queue of s holds after a send of envelope m that finds room
enqueued(s, m) == Append(output[s], [t |-> m.t, message |-> m.message, stamp |-> nacc[s] + 1])

\* C1 (state part): during and at the end of an unfiltered fan-out every
\* session of the live set taken at the hand-off that the range has dealt with
\* was either given the envelope exactly once or found with a full queue, no
\* session outside that live set was given it, and no visit was refused
\* because the session was closed.
C1_FanoutState ==
    (inFanout /\ ~hubM.hasFilter) =>
        \A s \in Sessions :
            /\ fan.cnt[s] <= 1
            /\ s \notin fan.snap => (fan.cnt[s] = 0 /\ fan.res[s] = "none")
            /\ visited(s) => /\ fan.res[s] \in {"ok", "full"}
                             /\ fan.res[s] = "ok" <=> fan.cnt[s] = 1

\* C1 (step part): the send of an unfiltered fan-out appends the envelope to
\* the visited session's queue iff that queue has room at that moment, never
\* meets a closed queue, and touches no other queue.
C1_FanoutStep ==
    (fanSendStep /\ ~hubM.hasFilter) =>
        /\ hubS \in fan.snap
        /\ ~outClosed[hubS]
        /\ ~panicked'
        /\ output'[hubS] = IF Len(output[hubS]) < MessageBufferSize
                           THEN enqueued(hubS, hubM) ELSE output[hubS]
        /\ \A r \in Sessions \ {hubS} : output'[r] = output[r]

\* C1: an unfiltered broadcast enqueues its envelope exactly once into every
\* session that is live when the hub takes it and whose queue has room when
\* the hub reaches it, into no other session, and a full queue or a dead pump
\* of one session does not stop the fan-out to the others.
C1_BroadcastReachesLiveSet == [](C1_FanoutState) /\ [][C1_FanoutStep]_vars

\* C1 witness: an unfiltered fan-out is over; one session's queue was full,
\* another session got the envelope.
C1_Witness ==
    /\ hubPc = "bcast_range" /\ todo = {} /\ ~hubM.hasFilter
    /\ \E s \in fan.snap, r \in fan.snap :
         s # r /\ fan.res[s] = "full" /\ fan.res[r] = "ok" /\ fan.cnt[r] = 1

\* the fan-out of the current broadcast is over (the hub loop is about to RUnlock)
fanoutOver == hubPc = "bcast_range" /\ todo = {}

\* C2 as stated: when a filtered fan-out is over, a live session holds the
\* envelope iff the filter accepted it, and the filter ran once per live session.
C2_FilteredEnqueueIffAccepted ==
    (fanoutOver /\ hubM.hasFilter) =>
        \A s \in fan.snap :
            /\ fan.evals[s] = 1
            /\ fan.cnt[s] = 1 <=> filterAccepts(hubM, s)

\* C2 amended (state part): the filter runs once per live session; a session
\* it rejects is given nothing; a session it accepts is given the envelope
\* once, or found with a full queue and given nothing.
C2_FilterState ==
    (inFanout /\ hubM.hasFilter) =>
        \A s \in Sessions :
            /\ fan.cnt[s] <= 1
            /\ s \notin fan.snap => (fan.cnt[s] = 0 /\ fan.evals[s] = 0)
            /\ (s \in todo \/ s = hubS) => fan.cnt[s] = 0
            /\ s = hubS => (fan.evals[s] = 1 /\ filterAccepts(hubM, s))
            /\ visited(s) =>
                 /\ fan.evals[s] = 1
                 /\ ~filterAccepts(hubM, s) => (fan.res[s] = "filtered" /\ fan.cnt[s] = 0)
                 /\ filterAccepts(hubM, s) => fan.res[s] \in {"ok", "full"}
                 /\ fan.res[s] = "ok" <=> fan.cnt[s] = 1

\* C2 amended (step part): the send of a filtered fan-out goes to a session
\* the filter accepted and appends the envelope iff the queue has room.
C2_FilterStep ==
    (fanSendStep /\ hubM.hasFilter) =>
        /\ filterAccepts(hubM, hubS)
        /\ output'[hubS] = IF Len(output[hubS]) < MessageBufferSize
                           THEN enqueued(hubS, hubM) ELSE output[hubS]
        /\ \A r \in Sessions \ {hubS} : output'[r] = output[r]

\* C2 amended: a filtered broadcast offers the envelope to a live session iff
\* the filter, run once per live session, accepts it; an accepted session
\* whose queue has room gets it exactly once, one whose queue is full gets
\* nothing, and a rejected session (the s of BroadcastOthers) never gets it.
C2_FilteredBroadcast == [](C2_FilterState) /\ [][C2_FilterStep]_vars

\* C2 witness: a filtered fan-out over two live sessions is over; the accepted
\* one holds the envelope, the rejected one was skipped.
C2_Witness ==
    /\ fanoutOver /\ hubM.hasFilter
    /\ \E s \in fan.snap, r \in fan.snap :
         /\ filterAccepts(hubM, s) /\ fan.res[s] = "ok" /\ fan.cnt[s] = 1
         /\ ~filterAccepts(hubM, r) /\ fan.res[r] = "filtered" /\ fan.cnt[r] = 0

\* a caller goroutine performs the select of writeMessage in this step
callerSendStep(c) == cl[c].pc = "wm_send" /\ cl'[c].pc # "wm_send"
\* the hub loop performs the select of writeMessage of the exit sweep in this step
exitSendStep == hubPc = "exit_send" /\ hubPc' # "exit_send"
\* the queue of the open session s holds capacity-many envelopes
queueFull(s) == ~outClosed[s] /\ Len(output[s]) = MessageBufferSize

\* C3 (state part): no queue ever holds more than the configured capacity, and
\* a Write / WriteBinary / CloseWithMsg that met a full queue has returned nil
\* after exactly one error callback, the buffer-full one, and no enqueue.
C3_FullState ==
    /\ \A s \in Sessions : Len(output[s]) <= MessageBufferSize
    /\ \A c \in Callers :
         (cl[c].pc = "ret" /\ cl[c].op \in {"Write", "SessionClose"} /\ cl[c].fullAtSend) =>
             (cl[c].errs = <<ErrBufferFull>> /\ cl[c].enq = 0 /\ cl[c].ret = ErrNone)

\* C3 (step part): a send that finds the queue full leaves every queue as it
\* was, reports buffer-full once, and the sender goes on at once (the caller
\* returns, the hub loop goes back to its range).
C3_FullStep ==
    /\ \A c \in Callers :
         (callerSendStep(c) /\ queueFull(cl[c].s)) =>
             /\ output' = output
             /\ cl'[c].errs = Append(cl[c].errs, ErrBufferFull)
             /\ cl'[c].enq = cl[c].enq
             /\ cl'[c].pc \in {"ret", "bm_loop"}
             /\ ~panicked'
    /\ (fanSendStep /\ queueFull(hubS)) =>
             /\ output' = output
             /\ fan'.errs[hubS] = Append(fan.errs[hubS], ErrBufferFull)
             /\ hubPc' = "bcast_range"
             /\ ~panicked'
    /\ (exitSendStep /\ queueFull(hubS)) =>
             /\ output' = output
             /\ fan'.errs[hubS] = Append(fan.errs[hubS], ErrBufferFull)
             /\ hubPc' = "exit_range"
             /\ ~panicked'

\* C3: a send to an open session whose queue is full does not block, loses
\* the message, leaves the queue unchanged and invokes the error callback
\* exactly once with buffer-full; no queue exceeds its capacity.
C3_FullQueueDrops == [](C3_FullState) /\ [][C3_FullStep]_vars

\* C3 witness: a Write met a full queue and has returned.
C3_Witness ==
    \E c \in Callers :
        /\ cl[c].pc = "ret" /\ cl[c].op = "Write" /\ cl[c].fullAtSend
        /\ cl[c].errs = <<ErrBufferFull>>
        /\ Len(output[cl[c].s]) = MessageBufferSize

\* the frames of session s still on their way to the transport, oldest first
pending(s) == (IF ppc[s] = "p_raw" THEN <<pmsg[s]>> ELSE <<>>) \o output[s]

\* C4: per session the pump writes envelopes in the order the queue accepted
\* them: the k-th frame on the transport is the k-th accepted envelope, and
\* what is still on its way follows in acceptance order.
C4_WritesInAcceptanceOrder ==
    \A s \in Sessions :
        /\ \A i \in 1..Len(wrote[s]) : wrote[s][i].stamp = i
        /\ \A i \in 1..Len(pending(s)) :
             /\ pending(s)[i].stamp > Len(wrote[s])
             /\ pending(s)[i].stamp <= nacc[s]
             /\ i > 1 => pending(s)[i].stamp = pending(s)[i - 1].stamp + 1

\* C4 witness: two envelopes sat in one queue together and both were written.
C4_Witness ==
    \E s \in Sessions :
        /\ Len(wrote[s]) = 2
        /\ wrote[s][1].t = "Text" /\ wrote[s][2].t = "Binary"
        /\ MessageBufferSize >= 2

\* the sweep of the hub's exit case has visited every session it ranges over
sweepOver == hubPc = "exit_range" /\ todo = {}
\* the hub loop takes an envelope from hub.exit in this step
exitTakeStep == hubPc = "select" /\ hubPc' = "exit"
\* the Close frame the sweep puts into the queue of s when it finds room
closeFrame(s) == [t |-> "Close", message |-> hubM.message, stamp |-> nacc[s] + 1]

\* C5 as stated: when the sweep of a shutdown is over, every session that was
\* live when it began has been given the Close envelope.
C5_ShutdownReachesEverySession ==
    sweepOver => \A s \in fan.snap : fan.cnt[s] = 1

\* C5 amended (state part): a session the sweep has dealt with is out of the
\* live set and was given the Close envelope once or found with a full queue;
\* when the sweep is over the live set is empty; a closed hub has a halted
\* loop and an empty live set.
C5_SweepState ==
    /\ hubPc \in {"exit_range", "exit_wm", "exit_send"} =>
         \A s \in Sessions :
             /\ fan.cnt[s] <= 1
             /\ s \notin fan.snap => fan.cnt[s] = 0
             /\ visited(s) => /\ s \notin sessions
                              /\ fan.res[s] \in {"ok", "full"}
                              /\ fan.res[s] = "ok" <=> fan.cnt[s] = 1
    /\ sweepOver => sessions = {}
    /\ hubClosed <=> hubPc = "halted"
    /\ hubClosed => sessions = {}

\* C5 amended (step part): the envelope taken from hub.exit is the caller's;
\* the send of the sweep appends a Close frame carrying its payload iff the
\* queue has room; once the hub is closed nothing of the hub changes again.
C5_SweepStep ==
    /\ exitTakeStep =>
         \E c \in Callers : cl[c].pc = "x_send" /\ hubM' = cl[c].m /\ hubM'.t = "Close"
    /\ exitSendStep =>
         /\ output'[hubS] = IF Len(output[hubS]) < MessageBufferSize
                            THEN Append(output[hubS], closeFrame(hubS)) ELSE output[hubS]
         /\ \A r \in Sessions \ {hubS} : output'[r] = output[r]
         /\ ~panicked'
    /\ hubClosed => UNCHANGED hubVars

\* C5 amended: when the hub processes a shutdown carrying payload P, every
\* session live at that moment is offered a Close envelope carrying P (it is
\* enqueued unless that session's queue is full, in which case it is dropped
\* with a buffer-full error) and removed; then the live set is empty and the
\* hub flag Closed; afterwards the flag never reopens, the live set stays
\* empty and the loop processes nothing more.
C5_Shutdown == [](C5_SweepState) /\ [][C5_SweepStep]_vars

\* C5 witness: a sweep over two live sessions is over and the newest frame of
\* both queues is the Close frame with the payload of the call.
C5_Witness ==
    /\ sweepOver /\ fan.snap = Sessions /\ hubM.message = "a"
    /\ \A s \in Sessions :
         /\ fan.res[s] = "ok" /\ output[s] # <<>>
         /\ output[s][Len(output[s])].t = "Close"
         /\ output[s][Len(output[s])].message = "a"

\* C6: a Close / CloseWithMsg call begun after an earlier one returned nil
\* returns the already-closed error: once the hub loop has halted it is not
\* still waiting at the hand-off on hub.exit, and it has not returned nil.
C6_SecondCloseReturnsError ==
    \A c \in Callers :
        (cl[c].op = "Close" /\ cl[c].afterClose /\ hubPc = "halted") =>
            (cl[c].pc = "ret" /\ cl[c].ret = ErrInstanceAlreadyClosed)

\* C7: a Broadcast* call begun after Close / CloseWithMsg returned nil returns
\* the closed-instance error at once: once the hub loop has halted it is not
\* still waiting at the hand-off on hub.broadcast, and it has not returned nil.
C7_BroadcastAfterCloseReturnsError ==
    \A c \in Callers :
        (cl[c].op = "Broadcast" /\ cl[c].afterClose /\ hubPc = "halted") =>
            (cl[c].pc = "ret" /\ cl[c].ret = ErrInstanceClosed)

\* C8: a BroadcastMultiple call over a non-empty list begun while the hub is
\* closed returns a closed error and has enqueued nothing.
C8_MultipleFailsWhenHubClosed ==
    \A c \in Callers :
        (cl[c].op = "BroadcastMultiple" /\ cl[c].hubClosedAtCall /\ cl[c].offered # <<>>) =>
            /\ cl[c].enq = 0
            /\ cl[c].pc = "ret" => cl[c].ret \in {ErrInstanceClosed, ErrSessionClosed}

\* C9: once a session is Closed nothing is added to its queue and no
\* goroutine (caller or hub loop) performs the send of writeMessage on it.
C9_NoSendOnceClosed ==
    [][ /\ \A s \in Sessions :
             closed(s) => (output'[s] = output[s] \/ output'[s] = Tail(output[s]))
        /\ \A c \in Callers : callerSendStep(c) => ~closed(cl[c].s)
        /\ (fanSendStep \/ exitSendStep) => ~closed(hubS) ]_vars

\* a caller goroutine enters Write / WriteBinary / Close / CloseWithMsg on a
\* closed session in this step
callOnClosed(c) ==
    /\ ops' = ops + 1
    /\ cl'[c].op \in {"Write", "SessionClose"}
    /\ cl'[c] # cl[c]
    /\ closed(cl'[c].s)

\* C10 (state part): a call made on a closed session has returned the
\* closed-session error of its function, with no enqueue and no callback.
C10_ClosedCallState ==
    \A c \in Callers :
        (cl[c].op \in {"Write", "SessionClose"} /\ cl[c].closedAtCall) =>
            /\ cl[c].pc = "ret"
            /\ cl[c].ret = IF cl[c].op = "Write" THEN ErrSessionClosed
                           ELSE ErrSessionAlreadyClosed
            /\ cl[c].errs = <<>> /\ cl[c].enq = 0 /\ cl[c].offered = <<>>

\* C10 (step part): such a call changes nothing of the sessions, the hub, the
\* pumps or the callbacks record.
C10_ClosedCallStep ==
    \A c \in Callers :
        callOnClosed(c) =>
            /\ cl'[c].pc = "ret" /\ cl'[c].closedAtCall
            /\ UNCHANGED <<hubVars, sessVars, procVars, closeReturned, panicked>>

\* C10: Close, CloseWithMsg, Write or WriteBinary on a session that is already
\* Closed returns a closed-session error and has no side effect: nothing is
\* enqueued, no callback runs, session and hub state are unchanged.
C10_CallOnClosedSession == [](C10_ClosedCallState) /\ [][C10_ClosedCallStep]_vars

\* C10 witness: a Close on a session that its accept goroutine had closed has
\* returned the already-closed error.
C10_Witness ==
    \E c \in Callers :
        /\ cl[c].op = "SessionClose" /\ cl[c].closedAtCall /\ cl[c].pc = "ret"
        /\ cl[c].ret = ErrSessionAlreadyClosed
        /\ hpc[cl[c].s] \in {"h_disconnect", "h_done"}

\* the accept call of connection s executes its first statement in this step
acceptStep(s) == hpc[s] = "idle" /\ hpc'[s] # "idle"

\* C11 (state part): an accept call refused because the hub was closed has
\* returned the closed-instance error with no session built (no upgrade, no
\* queue, no pump), nothing registered and no callback invoked.
C11_RefusedState ==
    \A s \in Sessions :
        hpc[s] = "h_ret_closed" =>
            /\ handleRequestResult(s) = ErrInstanceClosed
            /\ ~open[s] /\ ~connClosed[s] /\ ~outClosed[s] /\ output[s] = <<>>
            /\ ppc[s] = "p_none" /\ wrote[s] = <<>>
            /\ s \notin sessions /\ hubS # s
            /\ cbs[s] = NoCbs

\* C11 (step part): an accept call that begins while the hub flag is Closed
\* returns in that very step and changes nothing of the hub, the sessions, the
\* pumps or the callbacks; a returned call stays returned.
C11_RefusedStep ==
    \A s \in Sessions :
        /\ (acceptStep(s) /\ hubClosed) =>
              /\ hpc'[s] = "h_ret_closed"
              /\ UNCHANGED <<hubVars, sessVars, ppc, pmsg, wrote, cbs>>
        /\ hpc[s] = "h_ret_closed" => hpc'[s] = "h_ret_closed"

\* C11: HandleRequest / HandleRequestWithKeys called while the hub is closed
\* returns the closed-instance error immediately: no upgrade, no session
\* created or registered, no connect or disconnect callback, live set unchanged.
C11_AcceptOnClosedHub == [](C11_RefusedState) /\ [][C11_RefusedStep]_vars

\* C11 witness: an accept call was refused by a closed hub that had served
\* another connection before.
C11_Witness ==
    \E s \in Sessions, r \in Sessions :
        /\ hpc[s] = "h_ret_closed" /\ hubClosed
        /\ r # s /\ cbs[r].connect = 1

\* the positions of the accept goroutine from the connect callback's return onwards
afterConnect == {"h_spawn", "h_read", "h_unregister", "h_close", "h_disconnect", "h_done"}
\* the positions of the accept goroutine at which the outbound pump has been started
afterSpawn == {"h_read", "h_unregister", "h_close", "h_disconnect", "h_done"}
\* the positions of the accept goroutine at which its session exists and is open
beforeClose == {"h_register", "h_connect", "h_spawn", "h_read", "h_unregister", "h_close"}

\* C12 (state part): the connect callback has run once exactly when the accept
\* goroutine is past it, the disconnect callback once exactly when the goroutine
\* has returned, the pump exists exactly from the spawn on, the session is open
\* exactly until its close, and a session whose disconnect callback ran is closed.
C12_LifecycleState ==
    \A s \in Sessions :
        /\ cbs[s].connect = IF hpc[s] \in afterConnect THEN 1 ELSE 0
        /\ cbs[s].disconnect = IF hpc[s] = "h_done" THEN 1 ELSE 0
        /\ ppc[s] # "p_none" <=> hpc[s] \in afterSpawn
        /\ open[s] <=> hpc[s] \in beforeClose
        /\ cbs[s].disconnect > 0 => closed(s)

\* C12 (step part): the accept goroutine moves only along register hand-off,
\* connect callback, pump spawn, inbound pump exit, unregister hand-off (taken
\* iff the hub flag is Open when the inbound pump has exited), close, disconnect
\* callback.
C12_LifecycleStep ==
    \A s \in Sessions :
        hpc'[s] # hpc[s] =>
            CASE hpc[s] = "idle" -> hpc'[s] \in {"h_ret_closed", "h_ret_err", "h_register"}
              [] hpc[s] = "h_register" -> hpc'[s] = "h_connect" /\ hubPc' = "reg" /\ hubS' = s
              [] hpc[s] = "h_connect" -> hpc'[s] = "h_spawn" /\ cbs'[s].connect = 1
              [] hpc[s] = "h_spawn" -> hpc'[s] = "h_read" /\ ppc'[s] = "p_wait"
              [] hpc[s] = "h_read" -> hpc'[s] = IF hubClosed THEN "h_close" ELSE "h_unregister"
              [] hpc[s] = "h_unregister" -> hpc'[s] = "h_close" /\ hubPc' = "unreg" /\ hubS' = s
              [] hpc[s] = "h_close" -> hpc'[s] = "h_disconnect" /\ ~open'[s]
              [] hpc[s] = "h_disconnect" -> hpc'[s] = "h_done" /\ cbs'[s].disconnect = 1
              [] OTHER -> FALSE

\* C12: for every accepted connection the lifecycle events occur in the order
\* register, connect callback, outbound pump started, inbound pump runs and
\* exits, unregister (only if the hub is still open), session Closed,
\* disconnect callback; each callback fires exactly once per session and the
\* disconnect callback never fires while the session is open.
C12_LifecycleOrder == [](C12_LifecycleState) /\ [][C12_LifecycleStep]_vars

\* C12 witness: with the hub still open one connection has gone through its
\* whole lifecycle, unregister included, and its accept call has returned.
C12_Witness ==
    \E s \in Sessions :
        /\ hpc[s] = "h_done" /\ hubOpen /\ hubPc = "select" /\ s \notin sessions
        /\ cbs[s].connect = 1 /\ cbs[s].disconnect = 1 /\ closed(s)
        /\ ppc[s] = "p_done"

\* C13: a teardown that has begun can always still complete: the accept
\* goroutine whose inbound pump has exited is never left waiting at the
\* hand-off on hub.unregister with the hub loop gone, so it goes on to close
\* the session, run the disconnect callback and return.
C13_TeardownCompletes ==
    \A s \in Sessions : hpc[s] = "h_unregister" => hubPc # "halted"

\* the accept goroutine of s runs session.close() in this step
closeStep(s) == hpc[s] = "h_close" /\ hpc'[s] # "h_close"

\* C14 (state part): close() run on a Closed session returns it as it is and
\* closes nothing, so close() run again on its own result changes nothing; a
\* session's queue and connection are closed together, exactly in the sessions
\* whose accept goroutine has run close(), and such a session is Closed.
C14_CloseState ==
    /\ \A cc \in BOOLEAN, oc \in BOOLEAN :
         closeResult(FALSE, cc, oc) = [open |-> FALSE, conn |-> cc, out |-> oc, panic |-> FALSE]
    /\ \A o \in BOOLEAN, cc \in BOOLEAN, oc \in BOOLEAN :
         LET r == closeResult(o, cc, oc) IN
         closeResult(r.open, r.conn, r.out) = [r EXCEPT !.panic = FALSE]
    /\ \A s \in Sessions :
         /\ outClosed[s] <=> connClosed[s]
         /\ outClosed[s] <=> hpc[s] \in {"h_disconnect", "h_done"}
         /\ outClosed[s] => closed(s)

\* C14 (step part): a session that exists and is Closed stays Closed; a closed
\* queue or connection stays closed; the flag, the queue and the connection
\* change only in the close() of the accept goroutine, which finds the session
\* Open with queue and connection unclosed and closes both without a panic.
C14_CloseStep ==
    \A s \in Sessions :
        /\ (hpc[s] # "idle" /\ ~open[s]) => ~open'[s]
        /\ outClosed[s] => outClosed'[s]
        /\ connClosed[s] => connClosed'[s]
        /\ ((open[s] /\ ~open'[s]) \/ outClosed'[s] # outClosed[s]
              \/ connClosed'[s] # connClosed[s]) => closeStep(s)
        /\ closeStep(s) =>
              /\ open[s] /\ ~outClosed[s] /\ ~connClosed[s]
              /\ ~open'[s] /\ outClosed'[s] /\ connClosed'[s]
              /\ ~panicked'

\* C14: a session's open flag only ever goes from Open to Closed, never back;
\* the terminal close() closes the connection and the queue exactly once per
\* session, and a further close() on a Closed session changes nothing and
\* never closes the queue again.
C14_CloseOnce == [](C14_CloseState) /\ [][C14_CloseStep]_vars

\* C14 witness: a session was closed by its accept goroutine while frames were
\* still queued, and the goroutine has returned.
C14_Witness ==
    \E s \in Sessions :
        /\ hpc[s] = "h_done" /\ closed(s) /\ outClosed[s] /\ connClosed[s]
        /\ output[s] # <<>> /\ ~panicked

\* C15: when the connect callback runs for session S, S is in the live set:
\* Len() counts it and FilterSession finds it.
C15_ConnectSeesRegistration ==
    [][ \A s \in Sessions :
          (hpc[s] = "h_connect" /\ hpc'[s] = "h_spawn") =>
              /\ s \in sessions
              /\ hubLen >= 1
              /\ filterSession({s}) = s ]_vars

\* C16: a session is in the live set only between its register and its
\* unregister or the shutdown sweep: once the accept goroutine is past its
\* unregister step (when it closes the session and runs the disconnect
\* callback) the session is not in the live set and Len() does not count it.
C16_LiveSetMembership ==
    \A s \in Sessions :
        /\ s \in sessions => hpc[s] \in {"h_connect", "h_spawn", "h_read", "h_unregister"}
        /\ hpc[s] \in {"h_close", "h_disconnect", "h_done"} =>
              (s \notin sessions /\ hubLen <= Cardinality(Sessions \ {s}))

\* the hub loop applies a register or an unregister it has taken in this step
applyStep == hubPc \in {"reg", "unreg"} /\ hubPc' # hubPc

\* C17 (state part): for every live set and session, unregistering an absent
\* session gives the same live set, unregistering twice gives what once gives,
\* and unregister and register leave every other session's membership alone.
C17_UnregisterState ==
    \A live \in SUBSET Sessions, s \in Sessions :
        /\ s \notin live => unregisterSession(live, s) = live
        /\ unregisterSession(unregisterSession(live, s), s) = unregisterSession(live, s)
        /\ s \notin unregisterSession(live, s)
        /\ \A r \in Sessions \ {s} :
             /\ r \in unregisterSession(live, s) <=> r \in live
             /\ r \in registerSession(live, s) <=> r \in live

\* C17 (step part): the step in which the hub loop applies a register or an
\* unregister changes the membership of the session it took and of no other,
\* and leaves the hub's open flag as it was.
C17_UnregisterStep ==
    applyStep =>
        /\ hubOpen' = hubOpen
        /\ \A r \in Sessions \ {hubS} : r \in sessions' <=> r \in sessions
        /\ hubS \in sessions' <=> hubPc = "reg"

\* C17: unregister is idempotent and local: unregistering a session that is
\* not in the live set changes nothing, twice is the same as once, and an
\* unregister (like a register) never changes another session's membership
\* nor the hub's open flag.
C17_UnregisterIdempotentLocal == [](C17_UnregisterState) /\ [][C17_UnregisterStep]_vars

\* C17 witness: the hub has applied the unregister of one session while
\* another session stayed in the live set of the open hub.
C17_Witness ==
    \E s \in Sessions, r \in Sessions :
        /\ hpc[s] \in {"h_close", "h_disconnect", "h_done"} /\ s \notin sessions
        /\ r # s /\ r \in sessions /\ hubOpen /\ hubPc = "select"

\* the last element of a non-empty sequence
last(q) == q[Len(q)]
\* the sessions of a BroadcastMultiple call for which writeMessage has returned
settled(r) == r.enq + Len(r.errs)

\* C18 (state part): a BroadcastMultiple call that returned nil has gone
\* through its whole list and writeMessage has run for every listed session; one
\* that returned an error returned the closed-session error of the session it
\* had just reached, which is Closed, after writeMessage has run for every
\* session before it; while the call is inside a Write, that session is the
\* head of what is left of the list.
C18_MultipleState ==
    \A c \in Callers :
        cl[c].op = "BroadcastMultiple" =>
            /\ cl[c].pc = "bm_loop" => settled(cl[c]) = Len(cl[c].offered)
            /\ cl[c].pc \in {"wm_check", "wm_send"} =>
                  /\ cl[c].list # <<>> /\ cl[c].s = Head(cl[c].list)
                  /\ cl[c].offered # <<>> /\ last(cl[c].offered) = cl[c].s
                  /\ settled(cl[c]) = Len(cl[c].offered) - 1
            /\ cl[c].pc = "ret" =>
                  IF cl[c].ret = ErrNone
                  THEN cl[c].list = <<>> /\ settled(cl[c]) = Len(cl[c].offered)
                  ELSE /\ cl[c].ret = ErrSessionClosed
                       /\ cl[c].list # <<>> /\ cl[c].offered # <<>>
                       /\ last(cl[c].offered) = Head(cl[c].list)
                       /\ closed(Head(cl[c].list))
                       /\ settled(cl[c]) = Len(cl[c].offered) - 1

\* C18 (step part): the loop takes the sessions in list order, one at a time:
\* at the head of what is left it returns nil if nothing is left, returns the
\* closed-session error without touching any queue if that session is Closed,
\* and enters writeMessage for it otherwise; the list advances by one when
\* writeMessage has returned; a call that has returned does nothing more.
C18_MultipleStep ==
    \A c \in Callers :
        (cl[c].op = "BroadcastMultiple" /\ cl'[c] # cl[c]) =>
            CASE cl[c].pc = "bm_loop" ->
                   /\ output' = output
                   /\ IF cl[c].list = <<>>
                      THEN cl'[c].pc = "ret" /\ cl'[c].ret = ErrNone
                           /\ cl'[c].offered = cl[c].offered
                      ELSE /\ cl'[c].offered = Append(cl[c].offered, Head(cl[c].list))
                           /\ cl'[c].list = cl[c].list
                           /\ IF closed(Head(cl[c].list))
                              THEN cl'[c].pc = "ret" /\ cl'[c].ret = ErrSessionClosed
                              ELSE cl'[c].pc = "wm_check" /\ cl'[c].s = Head(cl[c].list)
              [] cl[c].pc \in {"wm_check", "wm_send"} ->
                   /\ cl'[c].offered = cl[c].offered
                   /\ \A r \in Sessions \ {cl[c].s} : output'[r] = output[r]
                   /\ cl'[c].pc = "bm_loop" => cl'[c].list = Tail(cl[c].list)
                   /\ cl'[c].pc # "bm_loop" => cl'[c].list = cl[c].list
              [] cl[c].pc = "ret" -> ops' = ops + 1 /\ output' = output
              [] OTHER -> FALSE

\* C18: BroadcastMultiple sends to the listed sessions one after the other in
\* list order and stops at the first session it finds Closed: it returns that
\* session's error, the message has been offered to the sessions before it and
\* no send is attempted on the sessions after it; if it finds no session Closed
\* it returns nil after offering the message to all of them.
C18_MultipleShortCircuit == [](C18_MultipleState) /\ [][C18_MultipleStep]_vars

\* C18 witness: a call over two sessions found the first one Closed and
\* returned its error; the second one, open, was not touched.
C18_Witness ==
    \E c \in Callers :
        /\ cl[c].op = "BroadcastMultiple" /\ cl[c].pc = "ret"
        /\ cl[c].ret = ErrSessionClosed
        /\ Len(cl[c].list) = 2 /\ cl[c].offered = <<cl[c].list[1]>>
        /\ closed(cl[c].list[1]) /\ ~closed(cl[c].list[2])
        /\ cl[c].enq = 0 /\ nacc[cl[c].list[2]] = 0

\* the writePump of s finishes a writeRaw of a queued envelope in this step
pumpWriteStep(s) == ppc[s] = "p_raw" /\ ppc'[s] # "p_raw"

\* C19 (state part): a Close frame on the transport is the last frame the pump
\* wrote and the pump has terminated; the pump has reported at most one error
\* and, if one, has terminated.
C19_PumpEndState ==
    \A s \in Sessions :
        /\ \A i \in 1..Len(wrote[s]) :
             wrote[s][i].t = "Close" => (i = Len(wrote[s]) /\ ppc[s] = "p_done")
        /\ Len(cbs[s].err) <= 1
        /\ cbs[s].err # <<>> => ppc[s] = "p_done"

\* C19 (step part): a terminated pump stays terminated and writes and reports
\* nothing more; the write of a queued envelope either succeeds, reporting no
\* error and terminating the pump iff the frame is a Close frame, or fails,
\* writing nothing, reporting exactly one error and terminating the pump.
C19_PumpEndStep ==
    \A s \in Sessions :
        /\ ppc[s] = "p_done" => (ppc'[s] = "p_done" /\ wrote'[s] = wrote[s]
                                   /\ cbs'[s].err = cbs[s].err)
        /\ pumpWriteStep(s) =>
              \/ /\ wrote'[s] = Append(wrote[s], pmsg[s])
                 /\ cbs'[s].err = cbs[s].err
                 /\ ppc'[s] = IF pmsg[s].t = "Close" THEN "p_done" ELSE "p_wait"
              \/ /\ wrote'[s] = wrote[s]
                 /\ Len(cbs'[s].err) = Len(cbs[s].err) + 1
                 /\ ppc'[s] = "p_done"

dataFrames(s) == SelectSeq(wrote[s], LAMBDA f : f.t \in FrameKinds)

\* C20 (state part): the message-sent callbacks of a session are, in order,
\* one per Text or Binary frame on its transport, the text variant for a Text
\* frame and the binary variant for a Binary frame, each for a different
\* envelope the queue accepted.
C20_SentState ==
    \A s \in Sessions :
        /\ Len(cbs[s].sent) = Len(dataFrames(s))
        /\ \A i \in 1..Len(cbs[s].sent) :
             /\ cbs[s].sent[i].message = dataFrames(s)[i].message
             /\ cbs[s].sent[i].stamp = dataFrames(s)[i].stamp
             /\ cbs[s].sent[i].handler = "messageSentHandler" <=> dataFrames(s)[i].t = "Text"
             /\ cbs[s].sent[i].handler = "messageSentHandlerBinary"
                  <=> dataFrames(s)[i].t = "Binary"
             /\ cbs[s].sent[i].stamp \in 1..nacc[s]
             /\ i > 1 => cbs[s].sent[i].stamp > cbs[s].sent[i - 1].stamp

\* C20 (step part): a message-sent callback runs only in the step in which
\* the pump has written a Text or Binary envelope; the write of a Close frame,
\* a failed write, a keepalive ping and a send that finds the queue full
\* invoke none.
C20_SentStep ==
    /\ \A s \in Sessions :
         /\ cbs'[s].sent # cbs[s].sent =>
               /\ pumpWriteStep(s) /\ pmsg[s].t \in FrameKinds
               /\ wrote'[s] = Append(wrote[s], pmsg[s])
               /\ Len(cbs'[s].sent) = Len(cbs[s].sent) + 1
         /\ (pumpWriteStep(s) /\ (pmsg[s].t = "Close" \/ wrote'[s] = wrote[s])) =>
               cbs'[s].sent = cbs[s].sent
         /\ (wrote'[s] # wrote[s] /\ last(wrote'[s]).t = "Ping") => cbs' = cbs
    /\ \A c \in Callers :
         (callerSendStep(c) /\ queueFull(cl[c].s)) => cbs' = cbs
    /\ (exitSendStep /\ queueFull(hubS)) => cbs' = cbs

\* C20: the message-sent callback is invoked exactly once for each Text or
\* Binary envelope the outbound pump writes successfully, after the write and
\* in the variant matching the frame kind; never for a Close frame, a keepalive
\* ping, an envelope dropped on a full queue or an envelope whose write failed.
C20_SentCallback == [](C20_SentState) /\ [][C20_SentStep]_vars

\* C20 witness: of two envelopes written to one session the first was accepted,
\* written and reported by the binary callback, the second was dropped on the
\* full queue; a keepalive ping went out as well.
C20_Witness ==
    \E s \in Sessions, c \in Callers :
        /\ Len(cbs[s].sent) = 1 /\ cbs[s].sent[1].handler = "messageSentHandlerBinary"
        /\ pingsWritten(s) = 1 /\ nacc[s] = 1
        /\ cl[c].s = s /\ cl[c].fullAtSend /\ cl[c].pc = "ret"

\* C21: once close() has closed a session's queue its outbound pump ends
\* normally: from then on the pump invokes no error callback, whatever
\* envelopes were still queued when the queue was closed.
C21_QueueClosedIsNormalEnd ==
    [][ \A s \in Sessions : outClosed[s] => cbs'[s].err = cbs[s].err ]_vars

\* C22: no goroutine is left at a hand-off on hub.register, hub.unregister,
\* hub.broadcast or hub.exit that the coordination loop will never receive:
\* once the loop has ended no accept goroutine and no caller waits at one.
C22_NoHandOffLeftBehind ==
    hubPc = "halted" =>
        /\ \A s \in Sessions : hpc[s] \notin {"h_register", "h_unregister"}
        /\ \A c \in Callers : cl[c].pc \notin {"b_send", "x_send"}

\* the hub loop is inside a fan-out or a shutdown sweep
inRange == hubPc \in {"bcast_range", "bcast_send", "exit_range", "exit_wm", "exit_send"}

\* C23 (state part): a session in the live set is Open with an unclosed queue
\* unless the hub has just taken its unregister and is about to delete it;
\* during a fan-out or a sweep every session still to be visited or being
\* visited is Open with an unclosed queue, and the hub has recorded no
\* closed-session error and no refused visit; the hub loop has not panicked.
C23_HubVisitsState ==
    /\ \A s \in sessions :
         (hubPc = "unreg" /\ hubS = s) \/ (open[s] /\ ~outClosed[s])
    /\ inRange =>
         /\ \A s \in todo : s \in sessions /\ open[s] /\ ~outClosed[s]
         /\ hubS # NoSession => (open[hubS] /\ ~outClosed[hubS])
         /\ \A s \in Sessions :
              /\ fan.res[s] \notin {"closed", "refused"}
              /\ \A i \in 1..Len(fan.errs[s]) : fan.errs[s][i] # ErrWriteClosed
    /\ hubPc # "panic"

\* C23 (step part): a session is closed only when the hub has taken its
\* unregister or the hub flag is Closed; the sends of the hub loop go to an
\* Open session with an unclosed queue and do not panic.
C23_HubVisitsStep ==
    /\ \A s \in Sessions :
         (open[s] /\ ~open'[s]) =>
             (hubClosed \/ s \notin sessions \/ (hubPc = "unreg" /\ hubS = s))
    /\ (fanSendStep \/ exitSendStep) =>
         (open[hubS] /\ ~outClosed[hubS] /\ ~panicked')

\* C23: whenever the hub loop applies a fan-out or a shutdown sweep, every
\* session it visits is still Open with an unclosed queue (a session is
\* closed only after the hub took its unregister or was seen closed), so the
\* hub goroutine never sends on a closed queue and never reports the
\* closed-session error.
C23_HubVisitsOpenSessions == [](C23_HubVisitsState) /\ [][C23_HubVisitsStep]_vars

\* C23 witness: the hub loop has sent to a live session during a fan-out while
\* another session, unregistered before, has already been closed.
C23_Witness ==
    \E s \in Sessions, r \in Sessions :
        /\ hubPc = "bcast_range" /\ s \in fan.snap /\ fan.res[s] = "ok"
        /\ r # s /\ r \notin fan.snap /\ closed(r) /\ outClosed[r]

====
